---- MODULE Spec2Model ----
(***************************************************************************)
(* A model of mcocRandomMap: the PriorityQueue, the AStar grid search, and *)
(* the quest-graph construction and staging of index.ts.                   *)
(*                                                                         *)
(* Three specifications share the module, one per component:               *)
(*   SpecPQ     any interleaving of insert / dequeue / peek on one queue   *)
(*   SpecAStar  new AStar(W, H) followed by one find(start, end)           *)
(*   SpecMap    populateTransitions, nodesFromTransitions and              *)
(*              buildAnimationSteps on a table merged from two paths       *)
(* A specification leaves the variables of the other components idle.      *)
(***************************************************************************)
EXTENDS Integers, Sequences, FiniteSets, TLC

VARIABLES
    pq,           \* PriorityQueue under test: [queue, length]
    pqRet,        \* what the last queue operation did and returned
    nextData,     \* the next datum to insert (data are numbered in insertion order)
    grid,         \* AStar.grid: x -> y -> Vertex
    adjacencies,  \* AStar.adjacencies: key -> sequence of Vertex
    start,        \* find's start point
    end,          \* find's end point
    frontier,     \* find's frontier: [queue, length]
    costs,        \* find's costs record: key -> number
    origin,       \* find's origin record: key -> Vertex or null
    pc,           \* where the running function is
    path,         \* find's return value
    pending,      \* run's paths not yet passed to populateTransitions
    transitions,  \* run's transitions: key -> sequence of Point
    nodeRefs,     \* nodesFromTransitions' nodeRefs: key -> MapNode
    currPoints,   \* nodesFromTransitions' work queue
    steps,        \* buildAnimationSteps' steps: [nodes, paths]
    currentNodes, \* buildAnimationSteps' currentNodes
    currentPaths, \* buildAnimationSteps' currentPaths
    reach,        \* a canReachEnd call on its own: its arguments and what it returned
    pick,         \* run's random choices of end points: the grid, the draws, the results
    anim          \* runAnimation's closure and what it has drawn and scheduled

pqVars == <<pq, pqRet, nextData>>
asVars == <<grid, adjacencies, frontier, costs, origin, path>>
mapVars == <<pending, transitions, nodeRefs, currPoints, steps, currentNodes, currentPaths>>
vars == <<pq, pqRet, nextData, grid, adjacencies, start, end, frontier, costs, origin, pc,
          path, pending, transitions, nodeRefs, currPoints, steps, currentNodes,
          currentPaths, reach, pick, anim>>

----------------------------------------------------------------------------
(* Bounds of the model *)

MaxQueue == 3      \* most entries the queue under test holds
MaxPrio == 2       \* priorities of the queue under test are 0..MaxPrio
MaxInserts == 4    \* most inserts in one run of the queue under test
MaxW == 4          \* grid widths are 1..MaxW
MaxH == 3          \* grid heights are 1..MaxH
HeavyCost == 1     \* the non-zero cost drawn, in units of 1/CostDiv
MaxPoints == 5     \* the points the two paths of a map are drawn from
MaxSub == 4        \* most points on the second path
MaxKeys == 4       \* most keys of a table canReachEnd is called on by itself
MaxChain == 11     \* most points on the main path of a long map

(* Program constants *)

CostDiv == 10      \* Math.random() * (width + height) / 10
msPerStep == 1000  \* how many ms the animation takes between nodes

\* null and undefined, as records so that they compare (unequal) with every
\* Vertex, MapNode and datum
null == [null |-> TRUE]
undefined == [undefined |-> TRUE]

----------------------------------------------------------------------------
(* helpers: Point *)

Point(x, y) == [x |-> x, y |-> y]

\* Point.key(): this.x + ',' + this.y
Key(p) == ToString(p.x) \o "," \o ToString(p.y)

\* Point.equals(p)
PointEquals(a, b) == a.x = b.x /\ a.y = b.y

Abs(n) == IF n < 0 THEN -n ELSE n

----------------------------------------------------------------------------
(* Numbers.  Every number the search compares is c/CostDiv + m/sqrt(2) for *)
(* integers c (a sum of vertex costs, in units of 1/CostDiv) and m (a      *)
(* manhattan distance); it is kept exactly as the pair <<c, m>>.           *)

Num(c, m) == <<c, m>>

\* a > b, decided exactly: (a.c - b.c) * sqrt(2) > CostDiv * (b.m - a.m)
NumGT(a, b) ==
    LET A == a[1] - b[1]
        B == CostDiv * (b[2] - a[2])
    IN  IF A >= 0
        THEN IF B < 0 THEN TRUE ELSE 2 * A * A > B * B
        ELSE IF B >= 0 THEN FALSE ELSE 2 * A * A < B * B

NumLE(a, b) == ~NumGT(a, b)

----------------------------------------------------------------------------
(* PriorityQueue *)

\* constructor
PQNew == [queue |-> <<>>, length |-> 0]

\* insert's loop: the index (0-based) of the first entry whose priority is
\* greater than the new one; insertIdx keeps its initial 0 when none is
InsertIdx(q, priority) ==
    LET greater == {i \in 1..Len(q) : NumGT(q[i].priority, priority)}
    IN  IF greater = {} THEN 0
        ELSE (CHOOSE i \in greater : \A j \in greater : i <= j) - 1

\* Array.splice(idx, 0, e)
Splice(q, idx, e) == SubSeq(q, 1, idx) \o <<e>> \o SubSeq(q, idx + 1, Len(q))

\* insert(data, priority)
PQInsert(p, data, priority) ==
    LET q == Splice(p.queue, InsertIdx(p.queue, priority),
                    [data |-> data, priority |-> priority])
    IN  [queue |-> q, length |-> Len(q)]

\* a dequeue that does not bring length up to date
PQDequeueStaleLength(p) ==
    IF Len(p.queue) = 0
    THEN <<[queue |-> <<>>, length |-> p.length], undefined>>
    ELSE <<[queue |-> Tail(p.queue), length |-> p.length], Head(p.queue).data>>

\* dequeue(): <<the queue afterwards, the element returned>>
PQDequeue(p) ==
    IF Len(p.queue) = 0
    THEN <<[queue |-> <<>>, length |-> 0], undefined>>
    ELSE <<[queue |-> Tail(p.queue), length |-> Len(p.queue) - 1], Head(p.queue).data>>

\* peek()
PQPeek(p) == IF Len(p.queue) = 0 THEN undefined ELSE Head(p.queue).data

----------------------------------------------------------------------------
(* The queue under test: any interleaving of insert, dequeue and peek.     *)
(* Data are numbered in insertion order ([id |-> n]), so a datum names    *)
(* its entry.                                                              *)

InitPQ ==
    /\ pq = PQNew /\ pqRet = [op |-> "new"] /\ nextData = 1
    /\ grid = <<>> /\ adjacencies = <<>> /\ start = null /\ end = null
    /\ frontier = PQNew /\ costs = <<>> /\ origin = <<>> /\ pc = "idle" /\ path = <<>>
    /\ pending = <<>> /\ transitions = <<>> /\ nodeRefs = <<>> /\ currPoints = <<>>
    /\ steps = <<>> /\ currentNodes = <<>> /\ currentPaths = <<>>
    /\ reach = [op |-> "idle"] /\ pick = [op |-> "idle"] /\ anim = [op |-> "idle"]

Insert ==
    /\ pq.length < MaxQueue
    /\ nextData <= MaxInserts
    /\ \E c \in 0..MaxPrio :
          /\ pq' = PQInsert(pq, [id |-> nextData], Num(c, 0))
          /\ pqRet' = [op |-> "insert", data |-> [id |-> nextData], priority |-> Num(c, 0),
                       held |-> pq.queue]
    /\ nextData' = nextData + 1
    /\ UNCHANGED <<asVars, mapVars, reach, pick, anim, start, end, pc>>

Dequeue ==
    /\ pq' = PQDequeue(pq)[1]
    /\ pqRet' = [op |-> "dequeue", value |-> PQDequeue(pq)[2], held |-> pq.queue]
    /\ UNCHANGED nextData
    /\ UNCHANGED <<asVars, mapVars, reach, pick, anim, start, end, pc>>

Peek ==
    /\ pqRet' = [op |-> "peek", value |-> PQPeek(pq), held |-> pq.queue]
    /\ UNCHANGED <<pq, nextData>>
    /\ UNCHANGED <<asVars, mapVars, reach, pick, anim, start, end, pc>>

----------------------------------------------------------------------------
(* AStar *)

Vertex(x, y, cost) == [x |-> x, y |-> y, cost |-> cost]

\* a record (a JavaScript object used as a map) with key k set to v
Put(rec, k, v) == [j \in DOMAIN rec \cup {k} |-> IF j = k THEN v ELSE rec[j]]

\* an offset list with one offset mistyped as a horizontal step
OffsetsMistyped == <<<<1, 1>>, <<-1, 1>>, <<-1, -1>>, <<1, 0>>>>

\* generateAdjacencies: [[1,1], [-1,1], [-1,-1], [1,-1]]
Offsets == <<<<1, 1>>, <<-1, 1>>, <<-1, -1>>, <<1, -1>>>>

\* generateAdjacencies(n, width, height): the in-bounds diagonal neighbours
\* of n, in the order of the offsets
GenerateAdjacencies(g, n, width, height) ==
    LET InBounds(o) == /\ n.x + o[1] >= 0 /\ n.x + o[1] < width
                       /\ n.y + o[2] >= 0 /\ n.y + o[2] < height
        ok == SelectSeq(Offsets, InBounds)
    IN  [i \in 1..Len(ok) |-> g[n.x + ok[i][1]][n.y + ok[i][2]]]

\* a constructor with the first pair of loops only
AdjacencyCellsEvenOnly(width, height) ==
    {c \in (0..(width - 1)) \X (0..(height - 1)) : c[1] % 2 = 0 /\ c[2] % 2 = 0}

\* the constructor's two pairs of loops: x and y both even, x and y both odd
AdjacencyCells(width, height) ==
    {c \in (0..(width - 1)) \X (0..(height - 1)) :
        \/ c[1] % 2 = 0 /\ c[2] % 2 = 0
        \/ c[1] % 2 = 1 /\ c[2] % 2 = 1}

\* constructor(width, height), costOf the random draws
NewGrid(width, height, costOf) ==
    [x \in 0..(width - 1) |-> [y \in 0..(height - 1) |-> Vertex(x, y, costOf[<<x, y>>])]]

NewAdjacencies(g, width, height) ==
    LET cells == AdjacencyCells(width, height)
        keys == {Key(Point(c[1], c[2])) : c \in cells}
        CellOf(k) == CHOOSE c \in cells : Key(Point(c[1], c[2])) = k
    IN  [k \in keys |->
            GenerateAdjacencies(g, g[CellOf(k)[1]][CellOf(k)[2]], width, height)]

\* getVertex(x, y)
GetVertex(x, y) == grid[x][y]

\* manhattanDistance(a, b)
ManhattanDistance(a, b) == Abs(a.x - b.x) + Abs(a.y - b.y)

Width == Cardinality(DOMAIN grid)
Height == Cardinality(DOMAIN grid[0])

\* the body of find's for loop over the neighbours of current, from the
\* i-th on; st is [frontier, costs, origin]
RECURSIVE Relax(_, _, _, _, _)
Relax(adj, i, current, endV, st) ==
    IF i > Len(adj) THEN st
    ELSE LET v == adj[i]
             newCost == st.costs[Key(current)] + v.cost
             improve == Key(v) \notin DOMAIN st.costs \/ newCost < st.costs[Key(v)]
             prio == Num(newCost, ManhattanDistance(v, endV))
             next == IF improve
                     THEN [frontier |-> PQInsert(st.frontier, v, prio),
                           costs |-> Put(st.costs, Key(v), newCost),
                           origin |-> Put(st.origin, Key(v), current)]
                     ELSE st
         IN  Relax(adj, i + 1, current, endV, next)

\* a backtrace that starts at the origin of current, leaving current out
RECURSIVE BacktraceFromOrigin(_, _)
BacktraceFromOrigin(current, org) ==
    LET from == IF Key(current) \in DOMAIN org THEN org[Key(current)] ELSE undefined
    IN  IF from = null \/ from = undefined THEN <<>>
        ELSE <<from>> \o BacktraceFromOrigin(from, org)

\* the loop that follows origin back from current
RECURSIVE Backtrace(_, _)
Backtrace(current, org) ==
    IF current = null \/ current = undefined THEN <<>>
    ELSE <<current>> \o Backtrace(IF Key(current) \in DOMAIN org
                                  THEN org[Key(current)] ELSE undefined, org)

\* a find that forgets to reverse the backtrace
ReverseForgotten(s) == s

\* Array.reverse()
Reverse(s) == [i \in 1..Len(s) |-> s[Len(s) + 1 - i]]

\* the points of a sequence of vertices (a Vertex is a Point)
AsPoint(v) == Point(v.x, v.y)

\* the cost draws of the model: every vertex draws 0, but for at most one
\* that draws HeavyCost (in units of 1/CostDiv) where that is within the
\* constructor's range, HeavyCost/CostDiv < (width + height)/CostDiv
CostDraws(width, height) ==
    LET cells == (0..(width - 1)) \X (0..(height - 1))
    IN  {[c \in cells |-> 0]} \cup
        {[c \in cells |-> IF c = h THEN HeavyCost ELSE 0] :
            h \in {c \in cells : HeavyCost < width + height}}

\* new AStar(width, height) and the first lines of find(start, end)
InitAStar ==
    /\ pq = PQNew /\ pqRet = [op |-> "new"] /\ nextData = 1
    /\ pending = <<>> /\ transitions = <<>> /\ nodeRefs = <<>> /\ currPoints = <<>>
    /\ steps = <<>> /\ currentNodes = <<>> /\ currentPaths = <<>>
    /\ reach = [op |-> "idle"] /\ pick = [op |-> "idle"] /\ anim = [op |-> "idle"]
    /\ \E width \in 1..MaxW, height \in 1..MaxH :
        \E costOf \in CostDraws(width, height) :
          \E s \in DOMAIN costOf, e \in DOMAIN costOf :
            LET g == NewGrid(width, height, costOf)
                startV == g[s[1]][s[2]]
            IN  /\ grid = g
                /\ adjacencies = NewAdjacencies(g, width, height)
                /\ start = Point(s[1], s[2])
                /\ end = Point(e[1], e[2])
                /\ frontier = PQInsert(PQNew, startV, Num(0, 0))
                /\ costs = [k \in {Key(startV)} |-> 0]
                /\ origin = [k \in {Key(startV)} |-> null]
                /\ pc = "loop"
                /\ path = <<>>

\* one iteration of find's while loop
FindStep ==
    /\ pc = "loop"
    /\ frontier.length > 0
    /\ LET current == PQDequeue(frontier)[2]
           rest == PQDequeue(frontier)[1]
           endV == GetVertex(end.x, end.y)
       IN  IF current = endV \/ current = undefined
           THEN /\ pc' = "break"
                /\ frontier' = rest
                /\ UNCHANGED <<costs, origin>>
           ELSE IF Key(current) \notin DOMAIN adjacencies
           THEN \* for (let v of undefined): TypeError
                /\ pc' = "threw"
                /\ frontier' = rest
                /\ UNCHANGED <<costs, origin>>
           ELSE LET st == Relax(adjacencies[Key(current)], 1, current, endV,
                                [frontier |-> rest, costs |-> costs, origin |-> origin])
                IN  /\ frontier' = st.frontier
                    /\ costs' = st.costs
                    /\ origin' = st.origin
                    /\ pc' = "loop"
    /\ UNCHANGED <<grid, adjacencies, start, end, path>>
    /\ UNCHANGED <<pqVars, mapVars, reach, pick, anim>>

\* the loop has ended: follow origin back from endV, reverse, return
FindReturn ==
    /\ pc = "break" \/ (pc = "loop" /\ frontier.length = 0)
    /\ path' = Reverse(Backtrace(GetVertex(end.x, end.y), origin))
    /\ pc' = "done"
    /\ UNCHANGED <<grid, adjacencies, start, end, frontier, costs, origin>>
    /\ UNCHANGED <<pqVars, mapVars, reach, pick, anim>>

----------------------------------------------------------------------------
(* index.ts: the transition table *)

\* a find that never finds the point
ContainsPointNever(seq, q) == FALSE

\* transAry.find((p) => p.equals(q)) != null
ContainsPoint(seq, q) == \E i \in 1..Len(seq) : PointEquals(seq[i], q)

\* populateTransitions' loop, from the i-th point of pathNodes on
RECURSIVE PopulateFrom(_, _, _)
PopulateFrom(pathNodes, i, trans) ==
    IF i > Len(pathNodes) THEN trans
    ELSE LET k == Key(pathNodes[i])
             t0 == IF k \in DOMAIN trans THEN trans[k] ELSE <<>>
             t1 == IF i - 1 >= 1 /\ ~ContainsPoint(t0, pathNodes[i - 1])
                   THEN Append(t0, pathNodes[i - 1]) ELSE t0
             t2 == IF i + 1 <= Len(pathNodes) /\ ~ContainsPoint(t1, pathNodes[i + 1])
                   THEN Append(t1, pathNodes[i + 1]) ELSE t1
         IN  PopulateFrom(pathNodes, i + 1, Put(trans, k, t2))

\* a populateTransitions that makes entries only for points that have a
\* neighbour on the path
PopulateTransitionsOfPairs(pathNodes, trans) ==
    IF Len(pathNodes) < 2 THEN trans ELSE PopulateFrom(pathNodes, 1, trans)

\* populateTransitions(pathNodes, transitions)
PopulateTransitions(pathNodes, trans) == PopulateFrom(pathNodes, 1, trans)

----------------------------------------------------------------------------
(* MapNode.  nodeRefs holds the one MapNode of each coordinate, and a       *)
(* reference to a MapNode is kept as the key of nodeRefs it is stored at.   *)

\* a constructor whose isBoss default is true
NewMapNodeBoss(x, y) ==
    [x |-> x, y |-> y, isBoss |-> TRUE, distSinceFight |-> -1,
     parents |-> <<>>, children |-> <<>>]

\* constructor(x, y)
NewMapNode(x, y) ==
    [x |-> x, y |-> y, isBoss |-> FALSE, distSinceFight |-> -1,
     parents |-> <<>>, children |-> <<>>]

\* hasAncestor(key), of the node at n
RECURSIVE HasAncestor(_, _, _)
HasAncestor(refs, n, key) ==
    \E i \in 1..Len(refs[n].parents) :
        \/ Key(refs[refs[n].parents[i]]) = key
        \/ HasAncestor(refs, refs[n].parents[i], key)

\* getAncestors(), of the node at n: every ancestor key, once per route
RECURSIVE GetAncestorsFrom(_, _, _)
GetAncestorsFrom(refs, n, i) ==
    IF i > Len(refs[n].parents) THEN <<>>
    ELSE <<Key(refs[refs[n].parents[i]])>>
         \o GetAncestorsFrom(refs, refs[n].parents[i], 1)
         \o GetAncestorsFrom(refs, n, i + 1)

GetAncestors(refs, n) == GetAncestorsFrom(refs, n, 1)

\* list.find((mn) => mn.equals(node)) != null, for a list of references
ContainsNode(refs, list, n) ==
    \E i \in 1..Len(list) : PointEquals(refs[list[i]], refs[n])

\* an addParent without the check for a parent already held
AddParentUnchecked(refs, n, parent) ==
    [refs EXCEPT ![n].parents = Append(@, parent)]

\* addParent(parent), on the node at n
AddParent(refs, n, parent) ==
    IF ContainsNode(refs, refs[n].parents, parent) THEN refs
    ELSE [refs EXCEPT ![n].parents = Append(@, parent)]

\* an addChild called the wrong way round: the node at n becomes a child of
\* the node it was to receive
AddChildSwapped(refs, n, child) ==
    IF ContainsNode(refs, refs[child].children, n) THEN refs
    ELSE [refs EXCEPT ![child].children = Append(@, n)]

\* addChild(child), on the node at n
AddChild(refs, n, child) ==
    IF ContainsNode(refs, refs[n].children, child) THEN refs
    ELSE [refs EXCEPT ![n].children = Append(@, child)]

\* a getChildren that returns the parents list
GetChildrenFromParents(refs, n) == refs[n].parents

\* getChildren(), of the node at n
GetChildren(refs, n) == refs[n].children

----------------------------------------------------------------------------
(* index.ts: canReachEnd and nodesFromTransitions *)

\* history.includes(key)
Includes(history, key) == \E i \in 1..Len(history) : history[i] = key

\* canReachEnd(startKey, endKey, transitions, history): [ok, history], the
\* value returned and the history array as the call leaves it.
\* CanReachEndFrom is its for loop from the i-th transition on.
RECURSIVE CanReachEnd(_, _, _, _)
RECURSIVE CanReachEndFrom(_, _, _, _, _)

\* a for loop that returns false without history.pop()
RECURSIVE CanReachEndFromNoPop(_, _, _, _, _)
CanReachEndFromNoPop(startKey, endKey, trans, history, i) ==
    IF i > Len(trans[startKey])
    THEN [ok |-> FALSE, history |-> history]
    ELSE IF Includes(history, Key(trans[startKey][i]))
    THEN CanReachEndFromNoPop(startKey, endKey, trans, history, i + 1)
    ELSE LET r == CanReachEnd(Key(trans[startKey][i]), endKey, trans, history)
         IN  IF r.ok THEN r
             ELSE CanReachEndFromNoPop(startKey, endKey, trans, r.history, i + 1)

CanReachEnd(startKey, endKey, trans, history) ==
    IF startKey = endKey THEN [ok |-> TRUE, history |-> history]
    ELSE CanReachEndFrom(startKey, endKey, trans, Append(history, startKey), 1)

CanReachEndFrom(startKey, endKey, trans, history, i) ==
    IF i > Len(trans[startKey])
    THEN [ok |-> FALSE, history |-> SubSeq(history, 1, Len(history) - 1)]
    ELSE IF Includes(history, Key(trans[startKey][i]))
    THEN CanReachEndFrom(startKey, endKey, trans, history, i + 1)
    ELSE LET r == CanReachEnd(Key(trans[startKey][i]), endKey, trans, history)
         IN  IF r.ok THEN r
             ELSE CanReachEndFrom(startKey, endKey, trans, r.history, i + 1)

\* a loop condition that is off by one
CurrPointsLeftButOne(points) == Len(points) > 1

\* while (currPoints.length > 0)
CurrPointsLeft(points) == Len(points) > 0

\* nodesFromTransitions' for loop over the transitions of currNode, from the
\* i-th on; st is [refs, queue], nodeRefs and currPoints as they stand
RECURSIVE ResolveFrom(_, _, _, _)
ResolveFrom(transPoints, i, currKey, st) ==
    IF i > Len(transPoints) THEN st
    ELSE LET testPoint == transPoints[i]
             testKey == Key(testPoint)
             refs1 == IF testKey \in DOMAIN st.refs THEN st.refs
                      ELSE Put(st.refs, testKey, NewMapNode(testPoint.x, testPoint.y))
             link == /\ ~HasAncestor(refs1, currKey, Key(refs1[testKey]))
                     /\ CanReachEnd(Key(refs1[testKey]), Key(end), transitions,
                                    GetAncestors(refs1, currKey)
                                        \o <<Key(refs1[currKey])>>).ok
             refs2 == IF link
                      THEN AddChild(AddParent(refs1, testKey, currKey), currKey, testKey)
                      ELSE refs1
             queue2 == IF link /\ ~PointEquals(refs2[testKey], end)
                       THEN Append(st.queue, testPoint) ELSE st.queue
         IN  ResolveFrom(transPoints, i + 1, currKey, [refs |-> refs2, queue |-> queue2])

----------------------------------------------------------------------------
(* index.ts: buildAnimationSteps *)

\* Array.flat()
RECURSIVE Flat(_)
Flat(ss) == IF Len(ss) = 0 THEN <<>> ELSE Head(ss) \o Flat(Tail(ss))

\* a unique that keeps every element
UniqueForgotten(refs, ary) == ary

\* unique(ary, (a, b) => a.equals(b))
RECURSIVE Unique(_, _)
Unique(refs, ary) ==
    IF Len(ary) = 0 THEN <<>>
    ELSE LET front == Unique(refs, SubSeq(ary, 1, Len(ary) - 1))
             el == ary[Len(ary)]
         IN  IF ContainsNode(refs, front, el) THEN front ELSE Append(front, el)

\* a containsPath that looks at the far end of the path only
ContainsPathByTarget(refs, paths, p) ==
    \E i \in 1..Len(paths) : PointEquals(refs[paths[i].n2], refs[p.n2])

\* containsPath(paths, path)
ContainsPath(refs, paths, p) ==
    \E i \in 1..Len(paths) :
        \/ PointEquals(refs[paths[i].n1], refs[p.n1]) /\ PointEquals(refs[paths[i].n2], refs[p.n2])
        \/ PointEquals(refs[paths[i].n2], refs[p.n1]) /\ PointEquals(refs[paths[i].n1], refs[p.n2])

\* a staged check that finds nothing
IsStagedNever(refs, batches, n) == FALSE

\* steps.nodes.flat().find((mn) => mn.equals(childNode))
IsStaged(refs, batches, n) == ContainsNode(refs, Flat(batches), n)

\* a loop condition that forgets the paths
StagingLeftNodesOnly(nodes, paths) == Len(nodes) > 0

\* while (currentNodes.length > 0 || currentPaths.length > 0)
StagingLeft(nodes, paths) == Len(nodes) > 0 \/ Len(paths) > 0

\* the values Math.random() draws, in hundredths: the least, and one above
\* every probability below 1
Draws == {0, 95}

Max(a, b) == IF a >= b THEN a ELSE b

\* a fight tried for every child, whatever its distSinceFight
TryFightAlways(childDist, parentDist) == TRUE

\* the condition under which a fight is tried for a child: it has no
\* distSinceFight yet, or one greater than the parent's plus one
TryFight(childDist, parentDist) == childDist = -1 \/ childDist > parentDist + 1

\* a chance of a fight that does not grow with the parent's distSinceFight
FightChanceFlat(parentDist) == 10

\* 0.1*currentNode.distSinceFight + 0.1, in hundredths
FightChance(parentDist) == 10 * parentDist + 10

\* the for loop over the children of currentNode, from the i-th on.
\* committed is steps after the push at the top of the sweep; childNodes is
\* the callback's list; st is [refs, paths, drawn]: nodeRefs, currentPaths
\* and the number of random draws made so far in the sweep
RECURSIVE SweepChildren(_, _, _, _, _, _)
SweepChildren(currentNode, i, committed, childNodes, st, draws) ==
    IF i > Len(GetChildren(st.refs, currentNode))
    THEN [st |-> st, childNodes |-> childNodes]
    ELSE LET childNode == GetChildren(st.refs, currentNode)[i]
             childNodes2 ==
                 IF /\ ~IsStaged(st.refs, committed.nodes, childNode)
                    /\ ~Includes(childNodes, childNode)
                 THEN Append(childNodes, childNode) ELSE childNodes
             p == [n1 |-> currentNode, n2 |-> childNode]
             paths2 ==
                 IF /\ ~ContainsPath(st.refs, Flat(committed.paths), p)
                    /\ ~ContainsPath(st.refs, st.paths, p)
                 THEN Append(st.paths, p) ELSE st.paths
             parentDist == st.refs[currentNode].distSinceFight
             childDist == st.refs[childNode].distSinceFight
             tryFight == TryFight(childDist, parentDist)
             \* Math.random() < 0.1*currentNode.distSinceFight + 0.1
             fight == draws[st.drawn + 1] < FightChance(parentDist)
             refs2 ==
                 IF ~tryFight THEN st.refs
                 ELSE IF fight
                 THEN [st.refs EXCEPT ![childNode].distSinceFight = 0]
                 ELSE [st.refs EXCEPT ![childNode].distSinceFight = Max(parentDist + 1, 1)]
             st2 == [refs |-> refs2, paths |-> paths2,
                     drawn |-> IF tryFight THEN st.drawn + 1 ELSE st.drawn]
         IN  SweepChildren(currentNode, i + 1, committed, childNodes2, st2, draws)

\* currentNodes.map(...).flat(), from the i-th current node on; mapped is
\* the flattened result so far
RECURSIVE SweepNodes(_, _, _, _, _, _)
SweepNodes(nodes, i, committed, mapped, st, draws) ==
    IF i > Len(nodes) THEN [st |-> st, mapped |-> mapped]
    ELSE LET r == SweepChildren(nodes[i], 1, committed, <<>>, st, draws)
         IN  SweepNodes(nodes, i + 1, committed, mapped \o r.childNodes, r.st, draws)

\* how many children the nodes of a list have in all: a bound on the random
\* draws of one sweep
RECURSIVE ChildCount(_, _)
ChildCount(refs, nodes) ==
    IF Len(nodes) = 0 THEN 0
    ELSE Len(GetChildren(refs, Head(nodes))) + ChildCount(refs, Tail(nodes))

----------------------------------------------------------------------------
(* run: two paths are merged into a transition table, the MapNode graph is *)
(* built from it and staged.  The points are PointAt(1), PointAt(2), ...;  *)
(* the main path is the first few of them in order; the second path, when  *)
(* there is one, is any simple sequence of them that starts and ends on    *)
(* the main path, as subStart and subEnd do.                               *)

PointAt(i) == Point(i - 1, (i - 1) % 2)

Universe == {PointAt(i) : i \in 1..MaxPoints}

MainPath(len) == [i \in 1..len |-> PointAt(i)]

IsSimple(seq) == \A i, j \in 1..Len(seq) : i # j => seq[i] # seq[j]

OnPath(p, seq) == \E i \in 1..Len(seq) : seq[i] = p

SubPaths(main, maxLen) ==
    {seq \in UNION {[1..n -> Universe] : n \in 0..maxLen} :
        /\ IsSimple(seq)
        /\ Len(seq) > 0 => OnPath(seq[1], main) /\ OnPath(seq[Len(seq)], main)}

InitMap ==
    /\ pq = PQNew /\ pqRet = [op |-> "new"] /\ nextData = 1
    /\ grid = <<>> /\ adjacencies = <<>>
    /\ frontier = PQNew /\ costs = <<>> /\ origin = <<>> /\ path = <<>>
    /\ \E len \in 1..MaxPoints : \E sub \in SubPaths(MainPath(len), MaxSub) :
          /\ pending = IF sub = <<>> THEN <<MainPath(len)>> ELSE <<MainPath(len), sub>>
          /\ start = PointAt(1)
          /\ end = PointAt(len)
    /\ transitions = <<>> /\ nodeRefs = <<>> /\ currPoints = <<>>
    /\ steps = [nodes |-> <<>>, paths |-> <<>>]
    /\ currentNodes = <<>> /\ currentPaths = <<>>
    /\ reach = [op |-> "idle"] /\ pick = [op |-> "idle"] /\ anim = [op |-> "idle"]
    /\ pc = "run"

\* a second path of three points: from the main path's start through a
\* point off the main path to a later point of the main path
Shortcuts(len) ==
    {<<>>} \cup {<<PointAt(1), PointAt(len + 1), PointAt(b)>> : b \in 3..(len - 1)}

\* run with a long main path, and no second path or a short one
InitLongMap ==
    /\ pq = PQNew /\ pqRet = [op |-> "new"] /\ nextData = 1
    /\ grid = <<>> /\ adjacencies = <<>>
    /\ frontier = PQNew /\ costs = <<>> /\ origin = <<>> /\ path = <<>>
    /\ \E len \in 1..MaxChain : \E sub \in Shortcuts(len) :
          /\ pending = IF sub = <<>> THEN <<MainPath(len)>> ELSE <<MainPath(len), sub>>
          /\ start = PointAt(1)
          /\ end = PointAt(len)
    /\ transitions = <<>> /\ nodeRefs = <<>> /\ currPoints = <<>>
    /\ steps = [nodes |-> <<>>, paths |-> <<>>]
    /\ currentNodes = <<>> /\ currentPaths = <<>>
    /\ reach = [op |-> "idle"] /\ pick = [op |-> "idle"] /\ anim = [op |-> "idle"]
    /\ pc = "run"

\* run: populateTransitions(path, transitions), for the next path
Populate ==
    /\ pc = "run"
    /\ pending # <<>>
    /\ transitions' = PopulateTransitions(Head(pending), transitions)
    /\ pending' = Tail(pending)
    /\ UNCHANGED <<nodeRefs, currPoints, steps, currentNodes, currentPaths>>
    /\ UNCHANGED <<pqVars, asVars, reach, pick, anim, start, end, pc>>

\* buildAnimationSteps calls nodesFromTransitions: its first lines
NodesBegin ==
    /\ pc = "run"
    /\ pending = <<>>
    /\ nodeRefs' = Put(Put(<<>>, Key(start), NewMapNode(start.x, start.y)),
                       Key(end), NewMapNode(end.x, end.y))
    /\ currPoints' = <<start>>
    /\ pc' = "nodes"
    /\ UNCHANGED <<pending, transitions, steps, currentNodes, currentPaths>>
    /\ UNCHANGED <<pqVars, asVars, reach, pick, anim, start, end>>

\* one iteration of nodesFromTransitions' while loop
ResolvePoint ==
    /\ pc = "nodes"
    /\ CurrPointsLeft(currPoints)
    /\ LET currPoint == Head(currPoints)
           rest == Tail(currPoints)
       IN  IF Key(currPoint) \notin DOMAIN nodeRefs
           THEN \* console.error(...); break
                /\ pc' = "uninitialized"
                /\ currPoints' = rest
                /\ UNCHANGED nodeRefs
           ELSE IF Key(nodeRefs[Key(currPoint)]) \notin DOMAIN transitions
           THEN \* for (let testPoint of undefined): TypeError
                /\ pc' = "threw"
                /\ currPoints' = rest
                /\ UNCHANGED nodeRefs
           ELSE \E st \in {ResolveFrom(transitions[Key(nodeRefs[Key(currPoint)])], 1,
                                       Key(currPoint), [refs |-> nodeRefs, queue |-> rest])} :
                    /\ nodeRefs' = st.refs
                    /\ currPoints' = st.queue
                    /\ pc' = "nodes"
    /\ UNCHANGED <<pending, transitions, steps, currentNodes, currentPaths>>
    /\ UNCHANGED <<pqVars, asVars, reach, pick, anim, start, end>>

\* nodesFromTransitions returns; buildAnimationSteps up to its while loop
StepsBegin ==
    /\ \/ pc = "nodes" /\ ~CurrPointsLeft(currPoints)
       \/ pc = "uninitialized"
    /\ LET startNode == Key(start)
           endNode == Key(end)
           refs1 == [nodeRefs EXCEPT ![startNode].distSinceFight = 1]
           refs2 == [refs1 EXCEPT ![endNode].distSinceFight = 0, ![endNode].isBoss = TRUE]
       IN  /\ nodeRefs' = refs2
           /\ steps' = [nodes |-> <<>>, paths |-> <<>>]
           /\ currentNodes' = <<startNode>>
           /\ currentPaths' = <<>>
    /\ pc' = "steps"
    /\ UNCHANGED <<pending, transitions, currPoints>>
    /\ UNCHANGED <<pqVars, asVars, reach, pick, anim, start, end>>

\* one iteration of buildAnimationSteps' while loop
Sweep ==
    /\ pc = "steps"
    /\ StagingLeft(currentNodes, currentPaths)
    /\ LET committed == [nodes |-> Append(steps.nodes, currentNodes),
                         paths |-> Append(steps.paths, currentPaths)]
       IN  \E draws \in [1..ChildCount(nodeRefs, currentNodes) -> Draws] :
             \E r \in {SweepNodes(currentNodes, 1, committed, <<>>,
                                  [refs |-> nodeRefs, paths |-> <<>>, drawn |-> 0], draws)} :
                 /\ steps' = committed
                 /\ nodeRefs' = r.st.refs
                 /\ currentPaths' = r.st.paths
                 /\ currentNodes' = Unique(r.st.refs, r.mapped)
    /\ UNCHANGED <<pending, transitions, currPoints>>
    /\ UNCHANGED <<pqVars, asVars, reach, pick, anim, start, end, pc>>

\* the while loop has ended: return steps
StepsReturn ==
    /\ pc = "steps"
    /\ ~StagingLeft(currentNodes, currentPaths)
    /\ pc' = "done"
    /\ UNCHANGED mapVars
    /\ UNCHANGED <<pqVars, asVars, reach, pick, anim, start, end>>

----------------------------------------------------------------------------
(* canReachEnd on its own: a call on any symmetric table over the points   *)
(* PointAt(1) .. PointAt(n), every entry in the order of the points'       *)
(* numbers, with any start key, end key and history that does not hold the *)
(* start key.                                                              *)

\* the points of S as a sequence, in the order of their numbers
RECURSIVE PointsInOrder(_, _, _)
PointsInOrder(S, i, n) ==
    IF i > n THEN <<>>
    ELSE (IF PointAt(i) \in S THEN <<PointAt(i)>> ELSE <<>>) \o PointsInOrder(S, i + 1, n)

\* the symmetric tables over PointAt(1) .. PointAt(n)
SymmetricTables(n) ==
    LET pts == {PointAt(i) : i \in 1..n}
        pairs == {pr \in SUBSET pts : Cardinality(pr) = 2}
        Entry(edges, p) == PointsInOrder({q \in pts : {p, q} \in edges}, 1, n)
    IN  {[k \in {Key(p) : p \in pts} |-> Entry(edges, CHOOSE p \in pts : Key(p) = k)] :
            edges \in SUBSET pairs}

InitReach ==
    /\ pq = PQNew /\ pqRet = [op |-> "new"] /\ nextData = 1
    /\ grid = <<>> /\ adjacencies = <<>> /\ start = null /\ end = null
    /\ frontier = PQNew /\ costs = <<>> /\ origin = <<>> /\ pc = "idle" /\ path = <<>>
    /\ pending = <<>> /\ transitions = <<>> /\ nodeRefs = <<>> /\ currPoints = <<>>
    /\ steps = <<>> /\ currentNodes = <<>> /\ currentPaths = <<>>
    /\ pick = [op |-> "idle"] /\ anim = [op |-> "idle"]
    /\ \E n \in 1..MaxKeys : \E table \in SymmetricTables(n) :
         \E startKey \in DOMAIN table, endKey \in DOMAIN table :
           \E held \in SUBSET {PointAt(i) : i \in 1..n} :
              /\ ~\E p \in held : Key(p) = startKey
              /\ reach = [op |-> "call", transitions |-> table, startKey |-> startKey,
                          endKey |-> endKey,
                          history |-> [i \in 1..Cardinality(held) |->
                                          Key(PointsInOrder(held, 1, n)[i])]]

\* canReachEnd(startKey, endKey, transitions, history) runs and returns
ReachCall ==
    /\ reach.op = "call"
    /\ \E r \in {CanReachEnd(reach.startKey, reach.endKey, reach.transitions,
                             reach.history)} :
          reach' = [op |-> "return", transitions |-> reach.transitions,
                    startKey |-> reach.startKey, endKey |-> reach.endKey,
                    history |-> reach.history, ok |-> r.ok, historyAfter |-> r.history]
    /\ UNCHANGED <<pqVars, asVars, mapVars, pick, anim, start, end, pc>>

----------------------------------------------------------------------------
(* run: the random choice of the main path's and the sub path's end points *)

MaxNodesWide == 8
MaxNodesHigh == 8

\* Math.floor(a / b) for b > 0
FloorDiv(a, b) == a \div b

\* Math.ceil(a / b) for b > 0
CeilDiv(a, b) == -((-a) \div b)

\* a % b as JavaScript computes it: the result has the sign of a
Rem(a, b) == IF a >= 0 THEN a % b ELSE -((-a) % b)

\* evensInRange(start, end)
EvensInRange(from, to) == FloorDiv(to - from + 2 - Rem(from, 2), 2)

\* the values Math.floor(Math.random() * n) can take, Math.random() being
\* any number r with 0 <= r < 1
FloorRandom(n) == IF n > 0 THEN 0..(n - 1) ELSE n..0

\* the y of the main path's start, shift being the value drawn
StartY(nodesHigh, shift) == CeilDiv(CeilDiv(nodesHigh, 2), 2) * 2 + shift * 2

StartShifts(nodesHigh) == FloorRandom(EvensInRange(CeilDiv(nodesHigh, 2), nodesHigh - 1))

\* the y of the main path's end, shift being the value drawn
EndY(nodesWide, shift) == shift * 2 + (IF Rem(nodesWide, 2) = 0 THEN 1 ELSE 0)

EndShifts(nodesHigh) == FloorRandom(EvensInRange(0, FloorDiv(nodesHigh - 1, 2)))

\* the lengths the path find returns can have on a grid of this size: the
\* path visits distinct even-sum vertices and its x goes from 0 to
\* nodesWide - 1 in steps of one
PathLengths(nodesWide, nodesHigh) ==
    IF nodesWide = 1 THEN {1}
    ELSE {len \in nodesWide..CeilDiv(nodesWide * nodesHigh, 2) : (len - nodesWide) % 2 = 0}

\* the offset of the sub path's end from its start
Offsets15(length) == {shift + 15 : shift \in FloorRandom(length - 30)}

SubEndIdx(subStartIdx, offset, length) == Rem(subStartIdx + offset, length)

\* path[i] of a path of the given length: the element at that place, or
\* undefined
ElementAt(i, length) == IF i \in 0..(length - 1) THEN [at |-> i] ELSE undefined

InitPick ==
    /\ pq = PQNew /\ pqRet = [op |-> "new"] /\ nextData = 1
    /\ grid = <<>> /\ adjacencies = <<>> /\ start = null /\ end = null
    /\ frontier = PQNew /\ costs = <<>> /\ origin = <<>> /\ pc = "idle" /\ path = <<>>
    /\ pending = <<>> /\ transitions = <<>> /\ nodeRefs = <<>> /\ currPoints = <<>>
    /\ steps = <<>> /\ currentNodes = <<>> /\ currentPaths = <<>>
    /\ reach = [op |-> "idle"] /\ anim = [op |-> "idle"]
    /\ \E nodesWide \in 1..MaxNodesWide, nodesHigh \in 1..MaxNodesHigh :
          pick = [op |-> "run", nodesWide |-> nodesWide, nodesHigh |-> nodesHigh]

\* run draws the end points of the main path
PickMain ==
    /\ pick.op = "run"
    /\ \E startShift \in StartShifts(pick.nodesHigh), endShift \in EndShifts(pick.nodesHigh) :
          pick' = [op |-> "main", nodesWide |-> pick.nodesWide, nodesHigh |-> pick.nodesHigh,
                   start |-> Point(0, StartY(pick.nodesHigh, startShift)),
                   end |-> Point(pick.nodesWide - 1, EndY(pick.nodesWide, endShift))]
    /\ UNCHANGED <<pqVars, asVars, mapVars, reach, anim, start, end, pc>>

\* find has returned the main path; run draws the end points of the sub path
PickSub ==
    /\ pick.op = "main"
    /\ pick.start.y \in 0..(pick.nodesHigh - 1) /\ pick.end.y \in 0..(pick.nodesHigh - 1)
    /\ \E length \in PathLengths(pick.nodesWide, pick.nodesHigh) :
         \E subStartIdx \in FloorRandom(length), offset \in Offsets15(length) :
            pick' = [op |-> "sub", length |-> length, subStartIdx |-> subStartIdx,
                     offset |-> offset,
                     subEndIdx |-> SubEndIdx(subStartIdx, offset, length),
                     subStart |-> ElementAt(subStartIdx, length),
                     subEnd |-> ElementAt(SubEndIdx(subStartIdx, offset, length), length)]
    /\ UNCHANGED <<pqVars, asVars, mapVars, reach, anim, start, end, pc>>

----------------------------------------------------------------------------
(* runAnimation.  Times are in ms.  A frame runs animStep with the time of *)
(* the browser's clock, which never runs backwards.                        *)

MaxSteps == 3

\* the clock when runAnimation is called
FirstTimes == {0, 100}

\* how far the clock has moved on when the next frame runs
FrameGaps == {0, 250, 1000, 2250}

Min(a, b) == IF a <= b THEN a ELSE b

\* the steps a frame commits, with a loop that also takes the step being
\* animated
CommittedStepsInclusive(lastStepCommitted, stepNum) ==
    [i \in 1..(stepNum - lastStepCommitted) |-> lastStepCommitted + i]

\* for (let step = lastStepCommitted+1; step < stepNum; step++): the steps
\* drawn on the permanent canvases, in order
CommittedSteps(lastStepCommitted, stepNum) ==
    [i \in 1..(stepNum - lastStepCommitted - 1) |-> lastStepCommitted + i]

\* run has built steps, of n batches, and is about to call runAnimation
InitAnim ==
    /\ pq = PQNew /\ pqRet = [op |-> "new"] /\ nextData = 1
    /\ grid = <<>> /\ adjacencies = <<>> /\ start = null /\ end = null
    /\ frontier = PQNew /\ costs = <<>> /\ origin = <<>> /\ pc = "idle" /\ path = <<>>
    /\ pending = <<>> /\ transitions = <<>> /\ nodeRefs = <<>> /\ currPoints = <<>>
    /\ steps = <<>> /\ currentNodes = <<>> /\ currentPaths = <<>>
    /\ reach = [op |-> "idle"] /\ pick = [op |-> "idle"]
    /\ \E n \in 1..MaxSteps, time \in FirstTimes :
          anim = [op |-> "call", n |-> n, time |-> time]

\* runAnimation(steps, onComplete): its closure, and the first frame
\* requested.  drawn is what the permanent canvases have received, batch
\* what the last frame added to it, completed the calls of onComplete,
\* requested the frames asked for and not yet run
RunAnimation ==
    /\ anim.op = "call"
    /\ anim' = [op |-> "run", n |-> anim.n, time |-> anim.time,
                animStart |-> undefined, lastStepCommitted |-> -1,
                drawn |-> <<>>, batch |-> <<>>, completed |-> 0, requested |-> 1]
    /\ UNCHANGED <<pqVars, asVars, mapVars, reach, pick, start, end, pc>>

\* a requested frame runs animStep(time)
AnimStep ==
    /\ anim.op = "run"
    /\ anim.requested > 0
    /\ \E gap \in FrameGaps :
          LET time == anim.time + gap
              animStart == IF anim.animStart = undefined THEN [ms |-> time]
                           ELSE anim.animStart
              stepNum == Min(FloorDiv(time - animStart.ms, msPerStep), anim.n)
              commit == stepNum # anim.lastStepCommitted + 1
              batch == IF commit THEN CommittedSteps(anim.lastStepCommitted, stepNum)
                       ELSE <<>>
              animating == stepNum < anim.n
          IN  anim' = [op |-> "run", n |-> anim.n, time |-> time,
                       animStart |-> animStart,
                       lastStepCommitted |-> IF commit THEN stepNum - 1
                                             ELSE anim.lastStepCommitted,
                       drawn |-> anim.drawn \o batch,
                       batch |-> batch,
                       completed |-> IF animating THEN anim.completed
                                     ELSE anim.completed + 1,
                       requested |-> IF animating THEN anim.requested
                                     ELSE anim.requested - 1]
    /\ UNCHANGED <<pqVars, asVars, mapVars, reach, pick, start, end, pc>>

----------------------------------------------------------------------------
(* Specifications *)

NextReach == ReachCall

SpecReach == InitReach /\ [][NextReach]_vars

NextPQ == Insert \/ Dequeue \/ Peek

SpecPQ == InitPQ /\ [][NextPQ]_vars

NextAStar == FindStep \/ FindReturn

SpecAStar == InitAStar /\ [][NextAStar]_vars

NextMap == Populate \/ NodesBegin \/ ResolvePoint \/ StepsBegin \/ Sweep \/ StepsReturn

SpecMap == InitMap /\ [][NextMap]_vars

\* ENABLED <<NextMap>>_vars, written out: at each of these places exactly
\* one of a pair of actions with complementary conditions can run, and
\* every action changes pc, shortens pending or currPoints, or lengthens
\* steps
NextMapEnabled == pc \in {"run", "nodes", "uninitialized", "steps"}

\* run is one synchronous call, so every loop iteration that can run does
\* run: WF_vars(NextMap), with its ENABLED written out as NextMapEnabled
FairSpecMap ==
    InitMap /\ [][NextMap]_vars /\ ([]<>(~NextMapEnabled) \/ []<><<NextMap>>_vars)

SpecLongMap == InitLongMap /\ [][NextMap]_vars

NextPick == PickMain \/ PickSub

SpecPick == InitPick /\ [][NextPick]_vars

NextAnim == RunAnimation \/ AnimStep

SpecAnim == InitAnim /\ [][NextAnim]_vars

\* the browser runs every frame that was requested, and its clock moves on
FairSpecAnim == InitAnim /\ [][NextAnim]_vars /\ WF_vars(NextAnim)

----------------------------------------------------------------------------
(* Grid geometry, independent of the search: what a diagonal path is *)

InGrid(p) == p.x \in 0..(Width - 1) /\ p.y \in 0..(Height - 1)

DiagStep(a, b) == Abs(a.x - b.x) = 1 /\ Abs(a.y - b.y) = 1

EvenSum(p) == (p.x + p.y) % 2 = 0

SameParity(a, b) == (a.x + a.y) % 2 = (b.x + b.y) % 2

GridPoints == {Point(x, y) : x \in 0..(Width - 1), y \in 0..(Height - 1)}

\* the points within any number of diagonal steps of the points of S
RECURSIVE DiagClosure(_)
DiagClosure(S) ==
    LET T == S \cup {q \in GridPoints : \E p \in S : DiagStep(p, q)}
    IN  IF T = S THEN S ELSE DiagClosure(T)

DiagReachable(a, b) == b \in DiagClosure({a})

\* seq goes from a to b by in-bounds diagonal steps
IsDiagPath(seq, a, b) ==
    /\ Len(seq) >= 1
    /\ AsPoint(seq[1]) = a
    /\ AsPoint(seq[Len(seq)]) = b
    /\ \A i \in 1..Len(seq) : InGrid(seq[i])
    /\ \A i \in 1..(Len(seq) - 1) : DiagStep(seq[i], seq[i + 1])

\* the sum of the costs of every vertex of seq after the first
RECURSIVE PathCost(_)
PathCost(seq) ==
    IF Len(seq) <= 1 THEN 0
    ELSE grid[seq[Len(seq)].x][seq[Len(seq)].y].cost + PathCost(SubSeq(seq, 1, Len(seq) - 1))

\* the least cost of a diagonal path from a to each point it reaches, by n
\* rounds of relaxation (Bellman-Ford) of a table D of pairs <<point, least
\* cost so far>>; a point no path has reached yet has no pair
Reached(D) == {t[1] : t \in D}

CostIn(D, p) == (CHOOSE t \in D : t[1] = p)[2]

RelaxAll(D) ==
    LET Via(p) == {CostIn(D, q) + grid[p.x][p.y].cost :
                     q \in {r \in Reached(D) : DiagStep(r, p)}}
        Known(p) == IF p \in Reached(D) THEN {CostIn(D, p)} ELSE {}
        Least(S) == CHOOSE m \in S : \A k \in S : m <= k
    IN  {<<p, Least(Known(p) \cup Via(p))>> :
            p \in {r \in GridPoints : Known(r) \cup Via(r) # {}}}

RECURSIVE LeastCosts(_, _)
LeastCosts(D, n) == IF n = 0 THEN D ELSE LeastCosts(RelaxAll(D), n - 1)

\* defined where b is reachable from a
MinCost(a, b) == CostIn(LeastCosts({<<a, 0>>}, Width * Height), b)

----------------------------------------------------------------------------
(* Claims *)

\* C1 (as stated): for every in-bounds start and end of the same
\* coordinate-sum parity, even or odd, find returns a sequence from start to
\* end in which every consecutive pair is an in-bounds diagonal step.
C1_FindReturnsPathForSameParity ==
    SameParity(start, end) =>
        /\ pc # "threw"
        /\ pc = "done" => IsDiagPath(path, start, end)

\* C1 (amended): for start and end both of even coordinate sum, with
\* start = end or both width and height at least 2, find returns a sequence
\* from start to end in which every consecutive pair is an in-bounds
\* diagonal step; for a start of odd coordinate sum other than end, find
\* does not return (it throws).
C1_FindReturnsPathForEvenSum ==
    pc \in {"loop", "break", "done", "threw"} =>
        /\ (/\ EvenSum(start) /\ EvenSum(end)
            /\ start = end \/ (Width >= 2 /\ Height >= 2)) =>
               /\ pc # "threw"
               /\ pc = "done" => IsDiagPath(path, start, end)
        /\ (~EvenSum(start) /\ start # end) => pc # "done"

\* C1 witness: find has returned a path of at least three points between
\* two different even-sum points.
C1_Witness ==
    /\ pc = "done"
    /\ EvenSum(start) /\ EvenSum(end) /\ start # end
    /\ Len(path) >= 3
    /\ IsDiagPath(path, start, end)

\* C2 (as stated): dequeue on a non-empty queue removes and returns an item
\* whose priority is minimal among all items held.
C2_DequeueReturnsMinimum ==
    (pqRet.op = "dequeue" /\ pqRet.held # <<>>) =>
        \E i \in 1..Len(pqRet.held) :
            /\ pqRet.held[i].data = pqRet.value
            /\ \A j \in 1..Len(pqRet.held) :
                  NumLE(pqRet.held[i].priority, pqRet.held[j].priority)

\* C3 (as stated): insert places the new item after every item already in
\* the queue that has the same priority.
C3_InsertAfterEqualPriorities ==
    pqRet.op = "insert" =>
        \A i, j \in 1..Len(pq.queue) :
            (/\ pq.queue[i].data = pqRet.data
             /\ j # i
             /\ pq.queue[j].priority = pqRet.priority) => j < i

\* C9 (as stated): when end is not reachable from start by diagonal steps,
\* the sequence find returns does not end at end.
C9_UnreachableDoesNotEndAtEnd ==
    (pc = "done" /\ ~DiagReachable(start, end)) =>
        AsPoint(path[Len(path)]) # end

\* C9 (amended): when end is not reachable from start by diagonal steps,
\* find returns only for a start of even coordinate sum, and it returns the
\* single-point sequence [end]: the result ends at end and does not begin
\* at start.
C9_UnreachableReturnsEndAlone ==
    (pc = "done" /\ ~DiagReachable(start, end)) =>
        /\ EvenSum(start)
        /\ path = <<GetVertex(end.x, end.y)>>
        /\ AsPoint(path[1]) # start

\* C9 witness: the frontier emptied on a grid of width 1 and find returned.
C9_Witness ==
    /\ pc = "done"
    /\ Width = 1 /\ start # end
    /\ ~DiagReachable(start, end)
    /\ frontier.length = 0

\* C10 (as stated): the path find returns from start to end has the least
\* total cost among all diagonal paths from start to end.
C10_ReturnedPathHasMinimumCost ==
    (pc = "done" /\ DiagReachable(start, end) /\ IsDiagPath(path, start, end)) =>
        PathCost(path) = MinCost(start, end)

----------------------------------------------------------------------------
(* The MapNode graph, read off nodeRefs independently of hasAncestor *)

SeqRange(seq) == {seq[i] : i \in 1..Len(seq)}

\* c is linked under p: by p's children list or by c's parents list
Linked(p, c) ==
    c \in SeqRange(nodeRefs[p].children) \/ p \in SeqRange(nodeRefs[c].parents)

LinkedUnder(S) == {c \in DOMAIN nodeRefs : \E p \in S : Linked(p, c)}

RECURSIVE LinkClosure(_)
LinkClosure(S) ==
    LET T == S \cup LinkedUnder(S) IN IF T = S THEN S ELSE LinkClosure(T)

\* the nodes below k, k itself only if it lies on a cycle
Descendants(k) == LinkClosure(LinkedUnder({k}))

\* the nodes reachable from the nodes of S through child links
RECURSIVE ChildClosure(_)
ChildClosure(S) ==
    LET T == S \cup UNION {SeqRange(nodeRefs[k].children) : k \in S}
    IN  IF T = S THEN S ELSE ChildClosure(T)

ReachableNodes == ChildClosure({Key(start)})

NoDuplicates(seq) == \A i, j \in 1..Len(seq) : i # j => seq[i] # seq[j]

SameEdge(a, b) == (a.n1 = b.n1 /\ a.n2 = b.n2) \/ (a.n1 = b.n2 /\ a.n2 = b.n1)

----------------------------------------------------------------------------
(* Claims about the MapNode graph and its staging *)

\* C4: at every step of nodesFromTransitions and in its result, no MapNode
\* is its own ancestor.
C4_NoNodeIsItsOwnAncestor ==
    \A k \in DOMAIN nodeRefs : k \notin Descendants(k)

\* C4 witness: the graph is built and a node in it has two parents.
C4_Witness ==
    /\ pc = "steps"
    /\ \E k \in DOMAIN nodeRefs : Len(nodeRefs[k].parents) >= 2

\* C5 (as stated): in the graph nodesFromTransitions returns, every node
\* reachable from start other than end has a child, and a child-link route
\* to end.
C5_NoDeadEndNode ==
    pc \in {"steps", "done"} =>
        \A k \in ReachableNodes :
            k # Key(end) =>
                /\ Len(nodeRefs[k].children) >= 1
                /\ Key(end) \in ChildClosure({k})

\* C6: the node batches hold every node reachable from start exactly once,
\* and nothing else.
C6_NodeBatchesAreTheReachableNodes ==
    pc = "done" =>
        LET staged == Flat(steps.nodes)
        IN  /\ NoDuplicates(staged)
            /\ SeqRange(staged) = ReachableNodes

\* C6 witness: staging is done, a batch holds two nodes and a node of the
\* graph has two parents.
C6_Witness ==
    /\ pc = "done"
    /\ \E i \in 1..Len(steps.nodes) : Len(steps.nodes[i]) >= 2
    /\ \E k \in ReachableNodes : Len(nodeRefs[k].parents) >= 2

\* C7: the edge batches hold every parent-child edge between nodes
\* reachable from start exactly once, whichever way round, and nothing else.
C7_EdgeBatchesAreTheReachableEdges ==
    pc = "done" =>
        LET edges == Flat(steps.paths)
            reachable == ReachableNodes
        IN  /\ \A i, j \in 1..Len(edges) : i # j => ~SameEdge(edges[i], edges[j])
            /\ \A i \in 1..Len(edges) :
                  /\ edges[i].n1 \in reachable
                  /\ edges[i].n2 \in SeqRange(nodeRefs[edges[i].n1].children)
            /\ \A p \in reachable : \A c \in SeqRange(nodeRefs[p].children) :
                  \E i \in 1..Len(edges) : SameEdge(edges[i], [n1 |-> p, n2 |-> c])

\* C7 witness: staging is done and a staged node has edges from two parents.
C7_Witness ==
    /\ pc = "done"
    /\ \E i, j \in 1..Len(Flat(steps.paths)) :
          /\ Flat(steps.paths)[i].n2 = Flat(steps.paths)[j].n2
          /\ Flat(steps.paths)[i].n1 # Flat(steps.paths)[j].n1

\* C8: node batch 0 holds start alone, and every node of a batch i >= 1 has
\* a parent in batch i-1 and no parent in an earlier batch.
C8_BatchFollowsDiscoveringParent ==
    pc = "done" =>
        /\ steps.nodes[1] = <<Key(start)>>
        /\ \A i \in 2..Len(steps.nodes) : \A k \in SeqRange(steps.nodes[i]) :
              /\ \E q \in SeqRange(nodeRefs[k].parents) : q \in SeqRange(steps.nodes[i - 1])
              /\ \A q \in SeqRange(nodeRefs[k].parents) :
                    \A j \in 1..Len(steps.nodes) :
                        q \in SeqRange(steps.nodes[j]) => j >= i - 1

\* C8 witness: staging is done and a node of batch 2 or later has a parent
\* in its own batch or a later one besides the parent that discovered it.
C8_Witness ==
    /\ pc = "done"
    /\ \E i \in 3..Len(steps.nodes) : \E k \in SeqRange(steps.nodes[i]) :
          \E q \in SeqRange(nodeRefs[k].parents) :
              \E j \in i..Len(steps.nodes) : q \in SeqRange(steps.nodes[j])

----------------------------------------------------------------------------
(* Claims C11 .. C20 *)

\* the number of points of the main path: end is its last point
MainLen == CHOOSE i \in 1..MaxPoints : PointAt(i) = end

\* the transition table is the one populateTransitions builds from the main
\* path alone
SinglePathTable == transitions = PopulateTransitions(MainPath(MainLen), <<>>)

\* C11: for a table built from a single simple path p0 .. pn (n >= 1) with
\* start = p0 and end = pn, nodesFromTransitions yields the chain
\* children(p_i) = [p_(i+1)], children(pn) = [], and buildAnimationSteps
\* yields n+1 batches: node batch i = [p_i], edge batch 0 = [], edge batch
\* i = [p_(i-1) - p_i].
C11_SinglePathYieldsLinearChain ==
    (pc \in {"steps", "done"} /\ MainLen >= 2 /\ SinglePathTable) =>
        /\ \A i \in 1..MainLen :
              nodeRefs[Key(PointAt(i))].children =
                  IF i < MainLen THEN <<Key(PointAt(i + 1))>> ELSE <<>>
        /\ DOMAIN nodeRefs = {Key(PointAt(i)) : i \in 1..MainLen}
        /\ pc = "done" =>
              /\ Len(steps.nodes) = MainLen
              /\ Len(steps.paths) = MainLen
              /\ \A i \in 1..MainLen :
                    /\ steps.nodes[i] = <<Key(PointAt(i))>>
                    /\ steps.paths[i] =
                          IF i = 1 THEN <<>>
                          ELSE <<[n1 |-> Key(PointAt(i - 1)), n2 |-> Key(PointAt(i))]>>

\* C11 witness: a single path of at least three points has been staged.
C11_Witness ==
    /\ pc = "done"
    /\ MainLen >= 3
    /\ SinglePathTable
    /\ Len(steps.nodes) = MainLen

\* C12: for every grid and every in-bounds point p of either parity,
\* find(p, p) returns exactly [p] and expands no vertex: nothing but p is
\* ever given a cost, an origin or a place in the frontier.
C12_FindOfAPointToItself ==
    (pc \in {"loop", "break", "done", "threw"} /\ start = end) =>
        /\ pc # "threw"
        /\ DOMAIN costs = {Key(start)}
        /\ DOMAIN origin = {Key(start)}
        /\ pc \in {"break", "done"} => frontier.length = 0
        /\ pc = "done" =>
              /\ Len(path) = 1
              /\ AsPoint(path[1]) = start
              /\ path[1] = GetVertex(start.x, start.y)

\* C12 witness: find has returned for start = end of odd coordinate sum.
C12_Witness ==
    /\ pc = "done"
    /\ start = end
    /\ ~EvenSum(start)
    /\ Len(path) = 1

\* C13: dequeue or peek on an empty PriorityQueue, new or emptied, returns
\* undefined without throwing and leaves the queue empty with length 0.
C13_EmptyQueueGivesUndefined ==
    (pqRet.op \in {"dequeue", "peek"} /\ pqRet.held = <<>>) =>
        /\ pqRet.value = undefined
        /\ pq.queue = <<>>
        /\ pq.length = 0

\* C13 witness: dequeue was called on a queue that inserts and dequeues had
\* emptied.
C13_Witness ==
    /\ pqRet.op = "dequeue"
    /\ pqRet.held = <<>>
    /\ pqRet.value = undefined
    /\ nextData > 2

\* C14: from the set-up of buildAnimationSteps on, through every sweep and
\* in the result, the end node has isBoss = true and distSinceFight = 0, and
\* no node other than end has isBoss = true.
C14_EndIsTheOnlyBoss ==
    pc \in {"steps", "done"} =>
        /\ nodeRefs[Key(end)].isBoss
        /\ nodeRefs[Key(end)].distSinceFight = 0
        /\ \A k \in DOMAIN nodeRefs : k # Key(end) => ~nodeRefs[k].isBoss

\* C14 witness: staging is done, end was reached from two parents, and a
\* node other than end was given a fight.
C14_Witness ==
    /\ pc = "done"
    /\ Len(nodeRefs[Key(end)].parents) >= 2
    /\ \E k \in DOMAIN nodeRefs : k # Key(end) /\ nodeRefs[k].distSinceFight = 0

\* C15: after any sequence of populateTransitions calls on simple paths
\* into the same table, B is in the entry of A iff A is in the entry of B,
\* every point that occurs as a neighbour has an entry of its own, and no
\* entry lists the same coordinate twice.
C15_TransitionsSymmetricAndDuplicateFree ==
    \A a \in DOMAIN transitions :
        /\ \A i \in 1..Len(transitions[a]) :
              LET b == Key(transitions[a][i])
              IN  /\ b \in DOMAIN transitions
                  /\ \E j \in 1..Len(transitions[b]) : Key(transitions[b][j]) = a
        /\ \A i, j \in 1..Len(transitions[a]) :
              i # j => Key(transitions[a][i]) # Key(transitions[a][j])

\* C15 witness: two paths have been populated and a point has three neighbours.
C15_Witness ==
    /\ pc = "run"
    /\ pending = <<>>
    /\ \E a \in DOMAIN transitions : Len(transitions[a]) >= 3
    /\ transitions # PopulateTransitions(MainPath(MainLen), <<>>)

\* C16: nodesFromTransitions terminates: once its loop has started, the
\* work queue eventually becomes empty and the function returns.
C16_NodesFromTransitionsTerminates ==
    (pc = "nodes") ~> (pc = "steps" /\ currPoints = <<>>)

\* C16 witness: a coordinate is in the work queue twice, once for each
\* parent that was expanded.
C16_Witness ==
    /\ pc = "nodes"
    /\ \E i, j \in 1..Len(currPoints) : i # j /\ currPoints[i] = currPoints[j]

\* no committed step has both batches empty, and the loop has stopped only
\* on a sweep that left both currentNodes and currentPaths empty
StagingStopsOnEmptySweep ==
    /\ pc \in {"steps", "done"} =>
          \A i \in 1..Len(steps.nodes) : steps.nodes[i] # <<>> \/ steps.paths[i] # <<>>
    /\ pc = "done" => currentNodes = <<>> /\ currentPaths = <<>>

\* C17: the staging loop of buildAnimationSteps terminates; it stops at the
\* first sweep that produces an empty node batch and an empty edge batch,
\* and no committed step has both batches empty.
C17_StagingTerminatesOnEmptySweep ==
    /\ []StagingStopsOnEmptySweep
    /\ (pc = "steps") ~> (pc = "done")

\* C17 witness: staging is done and a committed step has an empty node
\* batch with a non-empty edge batch: that sweep did not stop the loop.
C17_Witness ==
    /\ pc = "done"
    /\ \E i \in 1..Len(steps.nodes) : steps.nodes[i] = <<>> /\ steps.paths[i] # <<>>

\* the keys that can be reached from the keys of S in table without
\* entering a key of history
RECURSIVE ReachAvoiding(_, _, _)
ReachAvoiding(S, table, history) ==
    LET T == S \cup {k \in DOMAIN table :
                        /\ ~Includes(history, k)
                        /\ \E j \in S : \E i \in 1..Len(table[j]) : Key(table[j][i]) = k}
    IN  IF T = S THEN S ELSE ReachAvoiding(T, table, history)

\* C18: for every symmetric table, keys s and e and history h without s,
\* canReachEnd(s, e, table, h) returns true iff e can be reached from s in
\* the table with the nodes of h removed, and when it returns false h holds
\* exactly what it held on entry.
C18_CanReachEndIsReachability ==
    reach.op = "return" =>
        /\ reach.ok <=>
              reach.endKey \in ReachAvoiding({reach.startKey}, reach.transitions,
                                             reach.history)
        /\ ~reach.ok => reach.historyAfter = reach.history

\* C18 witness: a call with a key held back by the history returned true
\* although the first transition it tried could not reach the end key.
C18_Witness ==
    /\ reach.op = "return"
    /\ reach.ok
    /\ Len(reach.history) >= 1
    /\ reach.startKey # reach.endKey
    /\ LET first == Key(reach.transitions[reach.startKey][1])
       IN  /\ ~Includes(reach.history, first)
           /\ reach.endKey \notin ReachAvoiding({first}, reach.transitions,
                                                Append(reach.history, reach.startKey))

\* the in-bounds diagonal neighbours of the vertex at p
DiagNeighbours(p) == {GetVertex(q.x, q.y) : q \in {r \in GridPoints : DiagStep(p, r)}}

\* the adjacency entry of the vertex at p holds exactly its in-bounds
\* diagonal neighbours, each once
HasExactAdjacency(p) ==
    /\ Key(p) \in DOMAIN adjacencies
    /\ SeqRange(adjacencies[Key(p)]) = DiagNeighbours(p)
    /\ NoDuplicates(adjacencies[Key(p)])

\* C19 (as stated): after new AStar(W, H) every vertex, of even and of odd
\* coordinate sum alike, has an adjacency entry that holds exactly its
\* in-bounds diagonal neighbours.
C19_EveryVertexHasAdjacency ==
    pc \in {"loop", "break", "done", "threw"} =>
        \A p \in GridPoints : HasExactAdjacency(p)

\* C19 (amended): after new AStar(W, H) every vertex of even coordinate sum
\* has an adjacency entry that holds exactly its in-bounds diagonal
\* neighbours, and no vertex of odd coordinate sum has an entry; the
\* adjacency is symmetric and never joins vertices of different parity.
C19_EvenSumVerticesHaveAdjacency ==
    pc \in {"loop", "break", "done", "threw"} =>
        /\ \A p \in GridPoints :
              IF EvenSum(p) THEN HasExactAdjacency(p)
              ELSE Key(p) \notin DOMAIN adjacencies
        /\ DOMAIN adjacencies \subseteq {Key(p) : p \in GridPoints}
        /\ \A k \in DOMAIN adjacencies : \A i \in 1..Len(adjacencies[k]) :
              LET v == adjacencies[k][i]
              IN  /\ EvenSum(AsPoint(v))
                  /\ \E j \in 1..Len(adjacencies[Key(v)]) : Key(adjacencies[Key(v)][j]) = k

\* C19 witness: a grid is built on which an even-sum vertex with odd
\* coordinates has all four diagonal neighbours, next to odd-sum vertices.
C19_Witness ==
    /\ pc \in {"loop", "break", "done", "threw"}
    /\ Width >= 3 /\ Height >= 3
    /\ Len(adjacencies[Key(Point(1, 1))]) = 4
    /\ Key(Point(1, 0)) \notin DOMAIN adjacencies

\* C20: in the output of buildAnimationSteps every edge from parent p to
\* child c is in the edge batch one after the node batch of p, with c in a
\* node batch no later than that edge batch; and every node of a node batch
\* i >= 1 has, in edge batch i, an edge joining it to a node of node batch
\* i-1.  (Batches are numbered from 0; steps.nodes[j] is batch j-1.)
C20_EdgeBatchFollowsParentBatch ==
    pc = "done" =>
        /\ Len(steps.paths) = Len(steps.nodes)
        /\ \A j \in 1..Len(steps.paths) : \A e \in SeqRange(steps.paths[j]) :
              /\ j >= 2
              /\ e.n1 \in SeqRange(steps.nodes[j - 1])
              /\ e.n2 \in SeqRange(nodeRefs[e.n1].children)
              /\ \E k \in 1..j : e.n2 \in SeqRange(steps.nodes[k])
        /\ \A i \in 1..Len(steps.nodes) : \A p \in SeqRange(steps.nodes[i]) :
              \A c \in SeqRange(nodeRefs[p].children) :
                  /\ i + 1 <= Len(steps.paths)
                  /\ [n1 |-> p, n2 |-> c] \in SeqRange(steps.paths[i + 1])
        /\ \A i \in 2..Len(steps.nodes) : \A n \in SeqRange(steps.nodes[i]) :
              \E e \in SeqRange(steps.paths[i]) :
                  e.n2 = n /\ e.n1 \in SeqRange(steps.nodes[i - 1])

\* C20 witness: staging is done and an edge batch holds an edge to a child
\* that was already in an earlier node batch.
C20_Witness ==
    /\ pc = "done"
    /\ \E j \in 1..Len(steps.paths) : \E e \in SeqRange(steps.paths[j]) :
          \E k \in 1..(j - 1) : e.n2 \in SeqRange(steps.nodes[k])

----------------------------------------------------------------------------
(* run's end points *)

\* C21 (as stated): for every nodesWide >= 1 and nodesHigh >= 1 and every
\* draw, the main path's start is (0, y) with y even and 0 <= y <=
\* nodesHigh - 1, and its end is (nodesWide - 1, y') with 0 <= y' <=
\* nodesHigh - 1 and y' of the parity of nodesWide - 1.
C21_MainEndPointsInGridSameParity ==
    pick.op = "main" =>
        /\ pick.start.x = 0
        /\ pick.start.y % 2 = 0
        /\ pick.start.y \in 0..(pick.nodesHigh - 1)
        /\ pick.end.x = pick.nodesWide - 1
        /\ pick.end.y \in 0..(pick.nodesHigh - 1)
        /\ pick.end.y % 2 = (pick.nodesWide - 1) % 2

\* C22 (as stated): for every main path length L >= 1 and every draw,
\* subStartIdx and subEndIdx lie in 0..L-1 and are at least 15 apart, so
\* subStart and subEnd are defined, distinct points of the path.
C22_SubEndPointsValidAndFifteenApart ==
    pick.op = "sub" =>
        /\ pick.subStartIdx \in 0..(pick.length - 1)
        /\ pick.subEndIdx \in 0..(pick.length - 1)
        /\ Abs(pick.subEndIdx - pick.subStartIdx) >= 15
        /\ pick.subStart # undefined /\ pick.subEnd # undefined
        /\ pick.subStart # pick.subEnd

----------------------------------------------------------------------------
(* The node registry *)

\* C23: after every iteration of nodesFromTransitions' loop over its work
\* queue (and after the function) the registry
\* holds one MapNode per coordinate key, stored at the key of its own
\* coordinates; every parent and child reference is to a node of the
\* registry; no parents or children list holds a node twice; and c is a
\* child of p iff p is a parent of c.
C23_RegistryLinksMirrorWithoutDuplicates ==
    pc \in {"nodes", "uninitialized", "threw", "steps", "done"} =>
        /\ \A k \in DOMAIN nodeRefs : Key(nodeRefs[k]) = k
        /\ \A k \in DOMAIN nodeRefs :
              /\ NoDuplicates(nodeRefs[k].parents)
              /\ NoDuplicates(nodeRefs[k].children)
              /\ SeqRange(nodeRefs[k].parents) \subseteq DOMAIN nodeRefs
              /\ SeqRange(nodeRefs[k].children) \subseteq DOMAIN nodeRefs
        /\ \A p \in DOMAIN nodeRefs : \A c \in DOMAIN nodeRefs :
              c \in SeqRange(nodeRefs[p].children) <=> p \in SeqRange(nodeRefs[c].parents)

\* C23 witness: nodesFromTransitions is still at work, a node has two
\* parents, and a coordinate that is already linked is waiting in the work
\* queue to be resolved again.
C23_Witness ==
    /\ pc = "nodes"
    /\ \E k \in DOMAIN nodeRefs : Len(nodeRefs[k].parents) >= 2
    /\ \E i \in 1..Len(currPoints) :
          /\ Key(currPoints[i]) \in DOMAIN nodeRefs
          /\ Len(nodeRefs[Key(currPoints[i])].children) >= 1

----------------------------------------------------------------------------
(* Encounters *)

\* the nodes committed to a node batch
Committed == SeqRange(Flat(steps.nodes))

\* the nodes at which a run of n consecutive nodes that are not encounters
\* ends, along child links
RECURSIVE RunEnds(_)
RunEnds(n) ==
    IF n = 1 THEN {k \in DOMAIN nodeRefs : nodeRefs[k].distSinceFight >= 1}
    ELSE LET before == RunEnds(n - 1)
         IN  {k \in DOMAIN nodeRefs :
                 /\ nodeRefs[k].distSinceFight >= 1
                 /\ \E p \in before : k \in SeqRange(nodeRefs[p].children)}

\* C24 (amended): during staging and after it, every node committed to a
\* node batch, and every node waiting to be committed, has a distSinceFight
\* within 0..9; the value counts the nodes since the last encounter along
\* the route the node was last relaxed from, not along every route.
C24_CommittedDistWithinZeroToNine ==
    pc \in {"steps", "done"} =>
        \A k \in Committed \cup SeqRange(currentNodes) :
            nodeRefs[k].distSinceFight \in 0..9

\* C24 (as stated): every committed node has a distSinceFight within 0..9,
\* and no route along child links has more than 9 consecutive nodes that
\* are not encounters.
C24_NoRouteHasTenNonEncounters ==
    pc \in {"steps", "done"} =>
        /\ \A k \in Committed : nodeRefs[k].distSinceFight \in 0..9
        /\ RunEnds(10) = {}

\* C24 witness: staging is done and a node other than end was relaxed from a
\* parent whose distSinceFight is 9, its only parent, and is an encounter.
C24_Witness ==
    /\ pc = "done"
    /\ \E k \in Committed :
          /\ k # Key(end)
          /\ nodeRefs[k].distSinceFight = 0
          /\ Len(nodeRefs[k].parents) = 1
          /\ nodeRefs[nodeRefs[k].parents[1]].distSinceFight = 9

\* C25: during staging, a sweep leaves a resolved distSinceFight (>= 0) as
\* it is or makes it smaller, never greater and never unresolved again; a
\* node that is an encounter (0) stays one, and start keeps the value it
\* was initialised with.
C25_ResolvedDistOnlyDecreases ==
    [][pc = "steps" =>
          \A k \in DOMAIN nodeRefs :
              LET before == nodeRefs[k].distSinceFight
                  after == nodeRefs'[k].distSinceFight
              IN  /\ before >= 0 => after \in 0..before
                  /\ before = 0 => after = 0
                  /\ k = Key(start) => after = before]_vars

\* C25 witness: staging is done and a child of start has the value 1.  Its
\* relaxation from start, in the first sweep, gave it 0 or 2, so the 1 was
\* written by a later relaxation, from a parent that is an encounter.
C25_Witness ==
    /\ pc = "done"
    /\ \E k \in DOMAIN nodeRefs :
          /\ k # Key(start)
          /\ Includes(nodeRefs[k].parents, Key(start))
          /\ nodeRefs[k].distSinceFight = 1

----------------------------------------------------------------------------
(* The work queue of nodesFromTransitions *)

\* C26: for a transition table populated from paths with start and end on
\* them, every coordinate in the work queue of nodesFromTransitions has a
\* MapNode in the registry and that node's key has an entry in the
\* transition table; so the "uninitialized" diagnostic branch is never
\* taken and the transitions looked up for a popped coordinate are never
\* undefined.
C26_PoppedPointsAreRegisteredAndTabled ==
    /\ pc \notin {"uninitialized", "threw"}
    /\ pc = "nodes" =>
          \A i \in 1..Len(currPoints) :
              /\ Key(currPoints[i]) \in DOMAIN nodeRefs
              /\ Key(nodeRefs[Key(currPoints[i])]) \in DOMAIN transitions

\* C26 witness: nodesFromTransitions is at work, start has been popped and
\* resolved, and two coordinates pushed by the loop wait in the work queue.
C26_Witness ==
    /\ pc = "nodes"
    /\ Len(currPoints) >= 2
    /\ \A i \in 1..Len(currPoints) : currPoints[i] # start
    /\ Len(nodeRefs[Key(start)].children) >= 1

----------------------------------------------------------------------------
(* The animation *)

\* what runAnimation may have done at any time: the permanent canvases have
\* received the steps 0, 1, 2, ... in this order, each once; onComplete has
\* been called at most once, and when it has been called every step has
\* been drawn and no frame is requested
AnimationInOrder ==
    anim.op = "run" =>
        /\ anim.drawn = [i \in 1..Len(anim.drawn) |-> i - 1]
        /\ Len(anim.drawn) <= anim.n
        /\ anim.completed \in {0, 1}
        /\ anim.completed = 1 => Len(anim.drawn) = anim.n /\ anim.requested = 0

\* C27: in runAnimation over N steps, with frame times that never decrease,
\* every step 0..N-1 is drawn to the permanent canvases exactly once and in
\* increasing order, onComplete is called exactly once, after all N steps
\* have been drawn, and no frame is requested after it.
C27_EveryStepDrawnOnceThenComplete ==
    /\ []AnimationInOrder
    /\ <>[](anim.op = "run" /\ anim.completed = 1 /\ anim.requested = 0)

\* C27 witness: an animation of three steps has completed, and its last
\* frame drew two steps or more at once.
C27_Witness ==
    /\ anim.op = "run"
    /\ anim.n = 3
    /\ anim.completed = 1
    /\ Len(anim.batch) >= 2

====
